---- MODULE Spec2Model ----
(***************************************************************************)
(* Model of the streaming transcription pipeline of                        *)
(* live_transcribe_streaming.py: the capture callback, the processing      *)
(* loop (ring buffers, voice-activity gate, engine call), print_streaming  *)
(* (merge / finalize) and the KeyboardInterrupt handler.                   *)
(*                                                                         *)
(* Text is modelled character by character: a string is a sequence of      *)
(* one-character strings over Chars, so that str.strip, str.split and the  *)
(* f-string formatting are computed, not assumed.                          *)
(* Audio is modelled block by block: one element of a buffer is one        *)
(* callback block, represented by the amplitude (in 1/1000 of full scale)  *)
(* of a zero-mean signal.  Wall-clock time is counted in seconds.          *)
(***************************************************************************)
EXTENDS Integers, Sequences, FiniteSets, TLC

VARIABLES
    audio_q,            \* queue.Queue of converted blocks (line 32)
    buf,                \* processing buffer (line 124)
    context_buf,        \* context buffer (line 125)
    current_line,       \* global current_line (line 33)
    accumulated_text,   \* global accumulated_text (line 36)
    last_speech_time,   \* global last_speech_time (line 35)
    transcript,         \* lines appended to TRANSCRIPT_FILE by this session
    now,                \* time.time(), in seconds
    pc,                 \* position of the main thread
    text,               \* print_streaming's argument while it runs
    ts,                 \* print_streaming's local ts (line 52) while it runs
    fresh,              \* history: a fragment was accepted since the last write
    enqueued,           \* history: the blocks put on audio_q, in order
    dequeued,           \* history: the blocks audio_q.get() returned, in order
    windows,            \* history: the chunks np.split cut off buf, in order
    engine_log,         \* history: calls to, returns from and merges after
                        \* model.transcribe, each with the number of its window
    current_text,       \* whisper_clear.py: global current_text (line 31)
    last_update,        \* whisper_clear.py: global last_update (line 32)
    cb,                 \* whisper_clear.py: position of the callback thread
    cb_result,          \* whisper_clear.py: result["text"] (lines 50-61)
    accept_time,        \* history: time.time() when line 111 last ran
    pid_file,           \* supervision scripts: PID_FILE, /tmp/whisper_live.pid
    procs,              \* the transcription processes the scripts launched
    sup,                \* the running supervision scripts and their locals
    notification,       \* the text of the last notification shown
    invoked             \* history: the number of commands given so far

\* the history of the audio path
hist == <<enqueued, dequeued, windows, engine_log>>

\* the state of whisper_clear.py, which also uses transcript, now, pc, text
clear == <<current_text, last_update, cb, cb_result, accept_time>>

\* the state of the supervision scripts
supervision == <<pid_file, procs, sup, notification, invoked>>

vars == <<audio_q, buf, context_buf, current_line, accumulated_text,
          last_speech_time, transcript, now, pc, text, ts, fresh,
          enqueued, dequeued, windows, engine_log,
          current_text, last_update, cb, cb_result, accept_time,
          pid_file, procs, sup, notification, invoked>>

----------------------------------------------------------------------------
(* Bounds of the model *)

MaxQueue == 1       \* blocks waiting in audio_q
MaxTime == 7        \* last second the clock reaches
MaxBlocks == 6      \* blocks the device delivers while the history is kept
MaxBacklog == 3     \* a maximum of unprocessed blocks, below MaxBlocks
MaxLines == 2       \* lines the main loop of whisper_clear.py writes
ClearMaxTime == 4   \* last second the clock reaches in SpecClear
MaxSupervisors == 2 \* supervision scripts running at the same time
MaxCommands == 2    \* commands given to the supervision scripts
MaxLineLen == 3     \* characters of accumulated_text
MaxTextLen == 5     \* characters of a fragment in SpecMerge
MaxInitLen == 3     \* characters of the line a merge starts from in SpecMerge
ChunkBlocks == 2    \* callback blocks per processing window
ContextBlocks == 3  \* callback blocks kept in the context buffer
LiveChunkBlocks == 3 \* callback blocks per window of live_transcribe.py

(* Program constants *)

SILENCE_TIMEOUT == 5    \* seconds
NOISE_THRESHOLD == 5    \* 0.005 of full scale, in 1/1000

(* Program constants of whisper_clear.py *)

CLEAR_SILENCE_TIMEOUT == 3   \* SILENCE_TIMEOUT, seconds
CLEAR_ENERGY_THRESHOLD == 6  \* ENERGY_THRESHOLD, 0.006 of full scale, in 1/1000
CLEAR_CHUNK_TENTHS == 25     \* CHUNK_SEC, the length of a block, in 0.1 s
MIN_SPEECH_TENTHS == 12      \* MIN_SPEECH_DURATION, in 0.1 s

----------------------------------------------------------------------------
(* Strings *)

Chars == {"a", "b", " "}

\* all strings of at most n characters
RECURSIVE StringsUpTo(_)
StringsUpTo(n) ==
    IF n = 0 THEN {<<>>}
    ELSE LET S == StringsUpTo(n - 1)
         IN  S \cup {Append(s, c) : s \in {x \in S : Len(x) = n - 1}, c \in Chars}

RECURSIVE lstrip(_)
lstrip(s) == IF s # <<>> /\ Head(s) = " " THEN lstrip(Tail(s)) ELSE s

RECURSIVE rstrip(_)
rstrip(s) ==
    IF s # <<>> /\ s[Len(s)] = " " THEN rstrip(SubSeq(s, 1, Len(s) - 1)) ELSE s

\* str.strip()
strip(s) == rstrip(lstrip(s))

\* length of the first word of a string that starts with a non-space
RECURSIVE WordLen(_)
WordLen(s) == IF s = <<>> \/ Head(s) = " " THEN 0 ELSE 1 + WordLen(Tail(s))

\* str.split(): the maximal runs of non-space characters, in order
RECURSIVE split(_)
split(s) ==
    LET t == lstrip(s)
    IN  IF t = <<>> THEN <<>>
        ELSE <<SubSeq(t, 1, WordLen(t))>> \o split(SubSeq(t, WordLen(t) + 1, Len(t)))

\* f"[{ts}] {body}"
FormatLine(t, body) == <<"[", ToString(t), "]", " ">> \o body

----------------------------------------------------------------------------
(* print_streaming, is_final=False: lines 69-79 *)

\* the for loop of lines 77-79: existing_words is computed once, before the loop
RECURSIVE AppendWords(_, _)
AppendWords(new_words, existing_words) ==
    IF new_words = <<>> THEN <<>>
    ELSE (IF existing_words = <<>> \/ Head(new_words) # existing_words[Len(existing_words)]
          THEN <<" ">> \o Head(new_words)
          ELSE <<>>)
         \o AppendWords(Tail(new_words), existing_words)

\* mutant: no word is compared with the end of the line
MergeText_NoDedup(accumulated, fragment) ==
    IF accumulated = <<>>
    THEN strip(fragment)
    ELSE accumulated \o AppendWords(split(strip(fragment)), <<>>)

\* mutant: line 70 runs on every fragment, the line is overwritten
MergeText_Overwrite(accumulated, fragment) == strip(fragment)

\* the value of accumulated_text after lines 69-79
MergeText(accumulated, fragment) ==
    IF accumulated = <<>>
    THEN strip(fragment)
    ELSE accumulated \o AppendWords(split(strip(fragment)), split(accumulated))

\* mutant: the result is tested without strip()
Accepted_Unstripped(result) == result # <<>> /\ Len(result) > 0

\* line 164: result.strip() and len(result.strip()) > 0
Accepted(result) == strip(result) # <<>> /\ Len(strip(result)) > 0

----------------------------------------------------------------------------
(* Audio *)

\* amplitudes the device delivers, as int16
InputAmps == {0, 656}

\* amplitudes below NOISE_THRESHOLD, as int16: silence and a faint hum
QuietAmps == {0, 131}

\* line 42: int16 -> float32 in [-1,1]; the model keeps 1/1000 of full scale
ConvertBlock(indata) == (indata * 1000) \div 32768

RECURSIVE SumSq(_)
SumSq(blocks) ==
    IF blocks = <<>> THEN 0 ELSE Head(blocks) * Head(blocks) + SumSq(Tail(blocks))

\* mutant: any sound at all counts as speech
has_speech_AnySound(audio_chunk) == SumSq(audio_chunk) > 0

\* lines 85-94.  For a zero-mean signal rms and std are both
\* sqrt(mean(x^2)); the comparisons are squared to stay in the integers:
\*   rms > T          <=>  sum(x^2) > n * T^2
\*   std > T * 0.3    <=>  100 * sum(x^2) > 9 * n * T^2
has_speech(audio_chunk) ==
    /\ SumSq(audio_chunk) > Len(audio_chunk) * NOISE_THRESHOLD * NOISE_THRESHOLD
    /\ 100 * SumSq(audio_chunk)
         > 9 * Len(audio_chunk) * NOISE_THRESHOLD * NOISE_THRESHOLD

\* a[-n:] for 0 < n
LastN(a, n) == IF Len(a) > n THEN SubSeq(a, Len(a) - n + 1, Len(a)) ELSE a

\* mutant: the context buffer is trimmed to a single block
TrimContext_ToOne(c) == LastN(c, 1)

\* mutant: the context buffer is never trimmed
TrimContext_Never(c) == c

\* lines 135-137
TrimContext(c) == IF Len(c) > ContextBlocks THEN LastN(c, ContextBlocks) ELSE c

\* chunk, buf = np.split(buf, [n]) (line 141): the chunk
SplitChunk(b, n) == SubSeq(b, 1, n)

\* mutant: the last block of the chunk also stays in the buffer
SplitRest_Overlap(b, n) == SubSeq(b, n, Len(b))

\* chunk, buf = np.split(buf, [n]) (line 141): what stays in the buffer
SplitRest(b, n) == SubSeq(b, n + 1, Len(b))

\* positions of the main thread after the process has ended
Stopped == {"done", "crashed"}

----------------------------------------------------------------------------
(* Initial state: module level code, lines 32-36 and 124-125 *)

\* nothing has happened yet
HistInit ==
    /\ enqueued = <<>>
    /\ dequeued = <<>>
    /\ windows = <<>>
    /\ engine_log = <<>>

\* whisper_clear.py lines 31-32, the callback thread idle
ClearInit ==
    /\ current_text = <<>>
    /\ last_update = 0
    /\ cb = "idle"
    /\ cb_result = <<>>
    /\ accept_time = 0

\* the slots of the supervision scripts and the pids of the processes
\* they launch, one per command at most
Sup == 1..MaxSupervisors
Pids == 1..MaxCommands

\* PID_FILE does not exist
NoFile == [exists |-> FALSE, text |-> <<>>]

\* no script runs, nothing was launched, there is no PID file
SupervisionInit ==
    /\ pid_file = NoFile
    /\ procs = [p \in Pids |-> [state |-> "unused", parent |-> 0]]
    /\ sup = [s \in Sup |-> [kind |-> "hotkey", pc |-> "idle", pid |-> 0,
                             child |-> 0, linked |-> FALSE]]
    /\ notification = ""
    /\ invoked = 0

Init ==
    /\ HistInit
    /\ ClearInit
    /\ SupervisionInit
    /\ audio_q = <<>>
    /\ buf = <<>>
    /\ context_buf = <<>>
    /\ current_line = <<>>
    /\ accumulated_text = <<>>
    /\ last_speech_time = 0
    /\ transcript = <<>>
    /\ now = 0
    /\ pc = "get"
    /\ text = <<>>
    /\ ts = 0
    /\ fresh = FALSE

----------------------------------------------------------------------------
(* The capture thread *)

\* mutant: the newest block is handed over first
audio_callback_Lifo(indata, status) ==
    /\ pc \notin Stopped
    /\ audio_q' = <<ConvertBlock(indata)>> \o audio_q
    /\ UNCHANGED <<buf, context_buf, current_line, accumulated_text,
                   last_speech_time, transcript, now, pc, text, ts, fresh>>

\* mutant: the callback also feeds the processing buffer
audio_callback_FillsBuf(indata, status) ==
    /\ pc \notin Stopped
    /\ audio_q' = Append(audio_q, ConvertBlock(indata))
    /\ buf' = Append(buf, ConvertBlock(indata))
    /\ UNCHANGED <<context_buf, current_line, accumulated_text,
                   last_speech_time, transcript, now, pc, text, ts, fresh>>

\* lines 38-42; the stream is closed when the with block of line 115 is left.
\* status only goes to stderr (lines 39-40).
audio_callback(indata, status) ==
    /\ pc \notin Stopped
    /\ audio_q' = Append(audio_q, ConvertBlock(indata))
    /\ UNCHANGED <<buf, context_buf, current_line, accumulated_text,
                   last_speech_time, transcript, now, pc, text, ts, fresh>>

\* the wall clock read by time.time() and time.strftime; a second passes
\* where the main thread waits: in audio_q.get() or in model.transcribe
Tick ==
    /\ pc \in {"get", "transcribe"}
    /\ now < MaxTime
    /\ now' = now + 1
    /\ UNCHANGED <<audio_q, buf, context_buf, current_line, accumulated_text,
                   last_speech_time, transcript, pc, text, ts, fresh>>

----------------------------------------------------------------------------
(* The main thread *)

\* mutant: a second loop thread takes blocks while the engine call runs
LoopIteration_Concurrent ==
    /\ pc \in {"get", "transcribe"}
    /\ audio_q # <<>>
    /\ LET new_audio == Head(audio_q)
           buf1 == buf \o <<new_audio>>
           ctx1 == TrimContext(context_buf \o <<new_audio>>)
           recent_audio == LastN(ctx1, ChunkBlocks)
       IN  /\ audio_q' = Tail(audio_q)
           /\ context_buf' = ctx1
           /\ IF Len(buf1) >= ChunkBlocks
              THEN /\ buf' = SplitRest(buf1, ChunkBlocks)
                   /\ IF Len(ctx1) >= ChunkBlocks /\ has_speech(recent_audio)
                      THEN /\ last_speech_time' = now
                           /\ pc' = "transcribe"
                           /\ UNCHANGED <<transcript, ts, fresh>>
                      ELSE IF /\ Len(ctx1) >= ChunkBlocks
                              /\ accumulated_text # <<>>
                              /\ now - last_speech_time > SILENCE_TIMEOUT
                      THEN /\ ts' = now
                           /\ transcript' =
                                Append(transcript, FormatLine(now, strip(accumulated_text)))
                           /\ fresh' = FALSE
                           /\ pc' = "L65"
                           /\ UNCHANGED last_speech_time
                      ELSE UNCHANGED <<last_speech_time, pc, transcript, ts, fresh>>
              ELSE /\ buf' = buf1
                   /\ UNCHANGED <<last_speech_time, pc, transcript, ts, fresh>>
    /\ UNCHANGED <<current_line, accumulated_text, now, text>>

\* One pass of the while loop from audio_q.get() (line 130) up to the engine
\* call (line 156), to the file write of print_streaming("", True) (lines
\* 52-63), or back to line 130.
LoopIteration ==
    /\ pc = "get"
    /\ audio_q # <<>>
    /\ LET new_audio == Head(audio_q)
           buf1 == buf \o <<new_audio>>
           ctx1 == TrimContext(context_buf \o <<new_audio>>)
           recent_audio == LastN(ctx1, ChunkBlocks)
       IN  /\ audio_q' = Tail(audio_q)
           /\ context_buf' = ctx1
           /\ IF Len(buf1) >= ChunkBlocks
              THEN /\ buf' = SplitRest(buf1, ChunkBlocks)
                   /\ IF Len(ctx1) >= ChunkBlocks /\ has_speech(recent_audio)
                      THEN /\ last_speech_time' = now
                           /\ pc' = "transcribe"
                           /\ UNCHANGED <<transcript, ts, fresh>>
                      ELSE IF /\ Len(ctx1) >= ChunkBlocks
                              /\ accumulated_text # <<>>
                              /\ now - last_speech_time > SILENCE_TIMEOUT
                      THEN /\ ts' = now
                           /\ transcript' =
                                Append(transcript, FormatLine(now, strip(accumulated_text)))
                           /\ fresh' = FALSE
                           /\ pc' = "L65"
                           /\ UNCHANGED last_speech_time
                      ELSE UNCHANGED <<last_speech_time, pc, transcript, ts, fresh>>
              ELSE /\ buf' = buf1
                   /\ UNCHANGED <<last_speech_time, pc, transcript, ts, fresh>>
    /\ UNCHANGED <<current_line, accumulated_text, now, text>>

\* mutant: an empty result empties the line
TranscribeReturn_EmptyClears(result) ==
    /\ pc = "transcribe"
    /\ IF Accepted(result)
       THEN /\ text' = result
            /\ ts' = now
            /\ accumulated_text' = MergeText(accumulated_text, result)
            /\ fresh' = TRUE
            /\ pc' = "L81"
       ELSE /\ pc' = "get"
            /\ accumulated_text' = <<>>
            /\ UNCHANGED <<text, ts, fresh>>
    /\ UNCHANGED <<audio_q, buf, context_buf, current_line, last_speech_time,
                   transcript, now>>

\* model.transcribe returns (line 156); lines 164-166 and, in
\* print_streaming, lines 52 and 69-79
TranscribeReturn(result) ==
    /\ pc = "transcribe"
    /\ IF Accepted(result)
       THEN /\ text' = result
            /\ ts' = now
            /\ accumulated_text' = MergeText(accumulated_text, result)
            /\ fresh' = TRUE
            /\ pc' = "L81"
       ELSE /\ pc' = "get"
            /\ UNCHANGED <<text, ts, accumulated_text, fresh>>
    /\ UNCHANGED <<audio_q, buf, context_buf, current_line, last_speech_time,
                   transcript, now>>

\* print_streaming line 81, then return to the loop
SetCurrentLine ==
    /\ pc = "L81"
    /\ current_line' = FormatLine(ts, strip(accumulated_text))
    /\ text' = <<>>
    /\ ts' = 0
    /\ pc' = "get"
    /\ UNCHANGED <<audio_q, buf, context_buf, accumulated_text, last_speech_time,
                   transcript, now, fresh>>

\* print_streaming line 65
ClearCurrentLine ==
    /\ pc = "L65"
    /\ current_line' = <<>>
    /\ pc' = "L66"
    /\ UNCHANGED <<audio_q, buf, context_buf, accumulated_text, last_speech_time,
                   transcript, now, text, ts, fresh>>

\* mutant: line 66 is missing
ClearAccumulated_Keeps ==
    /\ pc = "L66"
    /\ ts' = 0
    /\ pc' = "L172"
    /\ UNCHANGED <<audio_q, buf, context_buf, current_line, accumulated_text,
                   last_speech_time, transcript, now, text, fresh>>

\* print_streaming line 66, then return
ClearAccumulated ==
    /\ pc = "L66"
    /\ accumulated_text' = <<>>
    /\ ts' = 0
    /\ pc' = "L172"
    /\ UNCHANGED <<audio_q, buf, context_buf, current_line, last_speech_time,
                   transcript, now, text, fresh>>

\* line 172
ResetContext ==
    /\ pc = "L172"
    /\ context_buf' = <<>>
    /\ pc' = "get"
    /\ UNCHANGED <<audio_q, buf, current_line, accumulated_text, last_speech_time,
                   transcript, now, text, ts, fresh>>

\* lines 174-181: Ctrl-C is delivered to the main thread between any two
\* bytecodes, so at any position of the loop.  The process then ends: the
\* file keeps its lines, the memory of the process is gone.
KeyboardInterrupt ==
    /\ pc \notin Stopped
    /\ IF current_line # <<>>
       THEN transcript' = Append(transcript, current_line)
       ELSE UNCHANGED transcript
    /\ pc' = "done"
    /\ audio_q' = <<>>
    /\ buf' = <<>>
    /\ context_buf' = <<>>
    /\ current_line' = <<>>
    /\ accumulated_text' = <<>>
    /\ last_speech_time' = 0
    /\ now' = 0
    /\ text' = <<>>
    /\ ts' = 0
    /\ fresh' = FALSE

\* model.transcribe raises (line 156): no except clause of the try of line
\* 127 matches, the exception leaves the with block and the interpreter
\* ends with a traceback; lines 174-181 do not run.
TranscribeRaises ==
    /\ pc = "transcribe"
    /\ pc' = "crashed"
    /\ audio_q' = <<>>
    /\ buf' = <<>>
    /\ context_buf' = <<>>
    /\ current_line' = <<>>
    /\ accumulated_text' = <<>>
    /\ last_speech_time' = 0
    /\ now' = 0
    /\ text' = <<>>
    /\ ts' = 0
    /\ fresh' = FALSE
    /\ UNCHANGED transcript

\* The cycle of LoopIteration that reaches the silence finalize, with the
\* open or the write of lines 61-63 raising OSError: like an engine fault,
\* the exception is caught nowhere and ends the process before line 65.
FinalizeWriteFails ==
    /\ pc = "get"
    /\ audio_q # <<>>
    /\ LET new_audio == Head(audio_q)
           buf1 == buf \o <<new_audio>>
           ctx1 == TrimContext(context_buf \o <<new_audio>>)
       IN  /\ Len(buf1) >= ChunkBlocks
           /\ Len(ctx1) >= ChunkBlocks
           /\ ~has_speech(LastN(ctx1, ChunkBlocks))
    /\ accumulated_text # <<>>
    /\ now - last_speech_time > SILENCE_TIMEOUT
    /\ pc' = "crashed"
    /\ audio_q' = <<>>
    /\ buf' = <<>>
    /\ context_buf' = <<>>
    /\ current_line' = <<>>
    /\ accumulated_text' = <<>>
    /\ last_speech_time' = 0
    /\ now' = 0
    /\ text' = <<>>
    /\ ts' = 0
    /\ fresh' = FALSE
    /\ UNCHANGED transcript

\* texts the engine returns in Spec
EngineTexts ==
    {<<>>, <<" ">>, <<"a">>, <<" ", "b">>, <<"a", " ", "b">>}

\* Spec keeps no history of the audio path
Next ==
    \/ \E indata \in InputAmps, status \in BOOLEAN :
          /\ Len(audio_q) < MaxQueue
          /\ audio_callback(indata, status)
          /\ UNCHANGED <<hist, clear, supervision>>
    \/ Tick /\ UNCHANGED <<hist, clear, supervision>>
    \/ LoopIteration /\ UNCHANGED <<hist, clear, supervision>>
    \/ \E result \in EngineTexts :
          /\ Len(MergeText(accumulated_text, result)) <= MaxLineLen
          /\ TranscribeReturn(result)
          /\ UNCHANGED <<hist, clear, supervision>>
    \/ TranscribeRaises /\ UNCHANGED <<hist, clear, supervision>>
    \/ FinalizeWriteFails /\ UNCHANGED <<hist, clear, supervision>>
    \/ SetCurrentLine /\ UNCHANGED <<hist, clear, supervision>>
    \/ ClearCurrentLine /\ UNCHANGED <<hist, clear, supervision>>
    \/ ClearAccumulated /\ UNCHANGED <<hist, clear, supervision>>
    \/ ResetContext /\ UNCHANGED <<hist, clear, supervision>>
    \/ KeyboardInterrupt /\ UNCHANGED <<hist, clear, supervision>>

Spec == Init /\ [][Next]_vars

----------------------------------------------------------------------------
(* print_streaming(text, is_final=False) on its own: the engine has been   *)
(* called for a window that passed the gate (line 156) and returns any     *)
(* text of at most MaxTextLen characters, on any line a first fragment can *)
(* have left.                                                              *)

\* texts the engine returns in SpecMerge
AllTexts == StringsUpTo(MaxTextLen)

\* what text.strip() can have left in accumulated_text (line 70)
StrippedTexts == {s \in StringsUpTo(MaxInitLen) : strip(s) = s}

InitMerge ==
    /\ HistInit
    /\ ClearInit
    /\ SupervisionInit
    /\ accumulated_text \in StrippedTexts
    /\ current_line =
         IF accumulated_text = <<>> THEN <<>> ELSE FormatLine(0, accumulated_text)
    /\ fresh = (accumulated_text # <<>>)
    /\ audio_q = <<>>
    /\ buf = <<>>
    /\ context_buf = [i \in 1..ChunkBlocks |-> ConvertBlock(656)]
    /\ last_speech_time = 0
    /\ transcript = <<>>
    /\ now = 0
    /\ pc = "transcribe"
    /\ text = <<>>
    /\ ts = 0

NextMerge ==
    \/ \E result \in AllTexts : TranscribeReturn(result) /\ UNCHANGED <<hist, clear, supervision>>
    \/ SetCurrentLine /\ UNCHANGED <<hist, clear, supervision>>

SpecMerge == InitMerge /\ [][NextMerge]_vars

----------------------------------------------------------------------------
(* The streaming loop on a device that only delivers blocks below the      *)
(* energy threshold.  The positions after the gate are never reached (C11),*)
(* so their actions are not part of NextQuiet.                             *)

NextQuiet ==
    \/ \E indata \in QuietAmps, status \in BOOLEAN :
          /\ Len(audio_q) < MaxQueue
          /\ audio_callback(indata, status)
          /\ UNCHANGED <<hist, clear, supervision>>
    \/ Tick /\ UNCHANGED <<hist, clear, supervision>>
    \/ LoopIteration /\ UNCHANGED <<hist, clear, supervision>>
    \/ KeyboardInterrupt /\ UNCHANGED <<hist, clear, supervision>>

SpecQuiet == Init /\ [][NextQuiet]_vars

----------------------------------------------------------------------------
(* live_transcribe.py: the same capture callback (lines 15-19) and queue    *)
(* (line 13), a loop that only cuts windows off buf and transcribes them.  *)

\* positions of the main thread of live_transcribe.py
LivePcs == {"live_get", "live_transcribe"}

\* mutant: a window is taken only when buf holds more than a window
LiveLoopIteration_Late ==
    /\ pc = "live_get"
    /\ audio_q # <<>>
    /\ LET buf1 == buf \o <<Head(audio_q)>>
       IN  /\ audio_q' = Tail(audio_q)
           /\ IF Len(buf1) > LiveChunkBlocks
              THEN /\ buf' = SplitRest(buf1, LiveChunkBlocks)
                   /\ pc' = "live_transcribe"
              ELSE /\ buf' = buf1
                   /\ pc' = "live_get"
    /\ UNCHANGED <<context_buf, current_line, accumulated_text, last_speech_time,
                   transcript, now, text, ts, fresh>>

\* lines 32-34, up to the engine call of line 35 or back to line 32
LiveLoopIteration ==
    /\ pc = "live_get"
    /\ audio_q # <<>>
    /\ LET buf1 == buf \o <<Head(audio_q)>>
       IN  /\ audio_q' = Tail(audio_q)
           /\ IF Len(buf1) >= LiveChunkBlocks
              THEN /\ buf' = SplitRest(buf1, LiveChunkBlocks)
                   /\ pc' = "live_transcribe"
              ELSE /\ buf' = buf1
                   /\ pc' = "live_get"
    /\ UNCHANGED <<context_buf, current_line, accumulated_text, last_speech_time,
                   transcript, now, text, ts, fresh>>

\* lines 35-40: the result is printed, nothing is kept
LiveTranscribeReturn(result) ==
    /\ pc = "live_transcribe"
    /\ pc' = "live_get"
    /\ UNCHANGED <<audio_q, buf, context_buf, current_line, accumulated_text,
                   last_speech_time, transcript, now, text, ts, fresh>>

----------------------------------------------------------------------------
(* The audio path with its history: what was enqueued, dequeued, cut off   *)
(* as a window and sent to the engine, for the first MaxBlocks blocks the  *)
(* device delivers.  SpecAudio runs either program.                        *)

\* the window the processing buffer gives up after one more block, if any
WindowTaken(b, new_audio, n) ==
    IF Len(b \o <<new_audio>>) >= n
    THEN <<SplitChunk(b \o <<new_audio>>, n)>>
    ELSE <<>>

\* the window of the engine call that has not returned yet
InFlight == engine_log[Len(engine_log)][2]

InitAudio ==
    /\ HistInit
    /\ ClearInit
    /\ SupervisionInit
    /\ audio_q = <<>>
    /\ buf = <<>>
    /\ context_buf = <<>>
    /\ current_line = <<>>
    /\ accumulated_text = <<>>
    /\ last_speech_time = 0
    /\ transcript = <<>>
    /\ now = 0
    /\ pc \in {"get", "live_get"}
    /\ text = <<>>
    /\ ts = 0
    /\ fresh = FALSE

\* texts the engine returns in SpecAudio
AudioTexts == {<<>>, <<"a">>}

\* audio_callback, recorded
RecordedCallback(indata, status) ==
    /\ audio_callback(indata, status)
    /\ enqueued' = Append(enqueued, ConvertBlock(indata))
    /\ UNCHANGED <<dequeued, windows, engine_log, clear, supervision>>

\* LoopIteration, recorded
RecordedLoopIteration ==
    /\ LoopIteration
    /\ dequeued' = Append(dequeued, Head(audio_q))
    /\ windows' = windows \o WindowTaken(buf, Head(audio_q), ChunkBlocks)
    /\ engine_log' = IF pc' = "transcribe"
                     THEN Append(engine_log, <<"call", Len(windows')>>)
                     ELSE engine_log
    /\ UNCHANGED <<enqueued, clear, supervision>>

\* TranscribeReturn, recorded
RecordedTranscribeReturn(result) ==
    /\ TranscribeReturn(result)
    /\ engine_log' = IF pc' = "L81"
                     THEN engine_log \o <<<<"return", InFlight>>, <<"merge", InFlight>>>>
                     ELSE Append(engine_log, <<"return", InFlight>>)
    /\ UNCHANGED <<enqueued, dequeued, windows, clear, supervision>>

NextAudio ==
    \/ \E indata \in InputAmps, status \in BOOLEAN :
          /\ Len(enqueued) < MaxBlocks
          /\ RecordedCallback(indata, status)
    \/ Tick /\ UNCHANGED <<hist, clear, supervision>>
    \/ RecordedLoopIteration
    \/ \E result \in AudioTexts : RecordedTranscribeReturn(result)
    \/ SetCurrentLine /\ UNCHANGED <<hist, clear, supervision>>
    \/ ClearCurrentLine /\ UNCHANGED <<hist, clear, supervision>>
    \/ ClearAccumulated /\ UNCHANGED <<hist, clear, supervision>>
    \/ ResetContext /\ UNCHANGED <<hist, clear, supervision>>
    \/ /\ LiveLoopIteration
       /\ dequeued' = Append(dequeued, Head(audio_q))
       /\ windows' = windows \o WindowTaken(buf, Head(audio_q), LiveChunkBlocks)
       /\ engine_log' = IF pc' = "live_transcribe"
                        THEN Append(engine_log, <<"call", Len(windows')>>)
                        ELSE engine_log
       /\ UNCHANGED <<enqueued, clear, supervision>>
    \/ \E result \in AudioTexts :
          /\ LiveTranscribeReturn(result)
          /\ engine_log' = Append(engine_log, <<"return", InFlight>>)
          /\ UNCHANGED <<enqueued, dequeued, windows, clear, supervision>>

SpecAudio == InitAudio /\ [][NextAudio]_vars

----------------------------------------------------------------------------
(* A scripted run of the streaming loop: the device delivers one window of *)
(* silence, one window of speech A, one window of speech B and then        *)
(* silence for one second less than SILENCE_TIMEOUT (4 s), in real time:   *)
(* the clock shows the seconds of audio delivered so far, and runs on      *)
(* freely once the script is over.  The loop and the engine take any time. *)

\* a window lasts CHUNK_SEC = 0.5 s (line 16), so a second is two windows
BlocksPerSec == 2 * ChunkBlocks

\* seconds of silence that end the script
ScriptSilence == SILENCE_TIMEOUT - 1

ScriptLen == 3 * ChunkBlocks + ScriptSilence * BlocksPerSec

\* the int16 amplitude of the i-th block of the script
Script(i) == IF i > ChunkBlocks /\ i <= 3 * ChunkBlocks THEN 656 ELSE 0

\* what the engine hears in the window of A (the 2nd) and of B (the 3rd)
ScriptFragment(w) ==
    IF w = 2 THEN <<" ", "a">> ELSE IF w = 3 THEN <<" ", "b">> ELSE <<>>

NextScript ==
    \/ /\ Len(enqueued) < ScriptLen
       /\ now = Len(enqueued) \div BlocksPerSec
       /\ RecordedCallback(Script(Len(enqueued) + 1), FALSE)
    \/ /\ now < Len(enqueued) \div BlocksPerSec \/ Len(enqueued) = ScriptLen
       /\ Tick
       /\ UNCHANGED <<hist, clear, supervision>>
    \/ RecordedLoopIteration
    \/ RecordedTranscribeReturn(ScriptFragment(InFlight))
    \/ SetCurrentLine /\ UNCHANGED <<hist, clear, supervision>>
    \/ ClearCurrentLine /\ UNCHANGED <<hist, clear, supervision>>
    \/ ClearAccumulated /\ UNCHANGED <<hist, clear, supervision>>
    \/ ResetContext /\ UNCHANGED <<hist, clear, supervision>>

SpecScript == Init /\ [][NextScript]_vars

----------------------------------------------------------------------------
(* whisper_clear.py: the callback thread filters, gates and transcribes    *)
(* each block itself and assigns current_text and last_update; the main    *)
(* thread checks every 0.1 s whether to write current_text to the          *)
(* transcript.  The two threads interleave between any two statements.     *)
(* A block is the pair of the amplitudes (1/1000 of full scale) of its     *)
(* content below and above the 300 Hz cutoff; the stream delivers float32, *)
(* so nothing is converted.                                                *)

UPPER ==
    <<"A", "B", "C", "D", "E", "F", "G", "H", "I", "J", "K", "L",
      "M", "N", "O", "P", "Q", "R", "S", "T", "U", "V", "W", "X",
      "Y", "Z">>

LOWER ==
    <<"a", "b", "c", "d", "e", "f", "g", "h", "i", "j", "k", "l",
      "m", "n", "o", "p", "q", "r", "s", "t", "u", "v", "w", "x",
      "y", "z">>

\* str.lower() and str.upper() on one character
lower_char(c) ==
    IF \E i \in 1..Len(UPPER) : UPPER[i] = c
    THEN LOWER[CHOOSE i \in 1..Len(UPPER) : UPPER[i] = c]
    ELSE c

upper_char(c) ==
    IF \E i \in 1..Len(LOWER) : LOWER[i] = c
    THEN UPPER[CHOOSE i \in 1..Len(LOWER) : LOWER[i] = c]
    ELSE c

\* str.lower()
lower(s) == [i \in 1..Len(s) |-> lower_char(s[i])]

\* phrase in s
Contains(phrase, s) ==
    \E i \in 0..(Len(s) - Len(phrase)) : SubSeq(s, i + 1, i + Len(phrase)) = phrase

\* lines 36-41
REJECT_PHRASES ==
    { <<"t", "h", "a", "n", "k", "s", " ", "f", "o", "r", " ", "w",
        "a", "t", "c", "h", "i", "n", "g">>,
      <<"p", "l", "e", "a", "s", "e", " ", "l", "i", "k", "e", " ",
        "a", "n", "d", " ", "s", "u", "b", "s", "c", "r", "i", "b",
        "e">>,
      <<"g", "u", "i", "t", "a", "r", " ", "a", "n", "d", " ", "b",
        "a", "s", "s">>,
      <<"y", "o", "u">> }

\* mutant: the phrases are compared with the text as it is, not lower-cased
Rejected_CaseSensitive(t) == \E phrase \in REJECT_PHRASES : Contains(phrase, t)

\* line 64
Rejected(t) == \E phrase \in REJECT_PHRASES : Contains(phrase, lower(t))

\* lines 67-73: capitalize the first letter, end with punctuation
Polish(t) ==
    IF t = <<>> THEN t
    ELSE LET c == <<upper_char(Head(t))>> \o Tail(t)
         IN  IF c[Len(c)] \notin {".", "!", "?"} THEN Append(c, ".") ELSE c

\* lines 61-75, result being result["text"]
transcribe_audio(result) ==
    IF Rejected(strip(result)) THEN <<>> ELSE Polish(strip(result))

\* line 79-85: what is below the cutoff is removed
butter_highpass_filter(indata) == <<0, indata[2]>>

\* lines 43-45, squared: the energies of the two bands add up
get_audio_energy_sq(audio_chunk) ==
    audio_chunk[1] * audio_chunk[1] + audio_chunk[2] * audio_chunk[2]

\* blocks the device delivers: silence, a hum below 300 Hz, a voice
ClearInputs == {<<0, 0>>, <<20, 0>>, <<0, 20>>}

\* texts the engine returns in SpecClear
ClearTexts ==
    { <<>>,
      <<" ", "h", "i", " ", "a", "l", "l">>,
      <<"o", "k">>,
      <<"Y", "o", "u", " ", "t", "o", "o">>,
      <<"s", "o", " ", "y", "o", "u", "n", "g">>,
      <<"h", "i", " ", "a", "l", "l", "!">> }

\* values time.inputBufferAdcTime can have when time.time() is t: the stream
\* clock has an unspecified origin and the block was captured before now
AdcTimes(t) == 0..t

\* lines 87-107: a block arrives; with a status flag the callback returns at
\* once (lines 91-92), otherwise it filters the block and, if the energy is
\* above the threshold and the block long enough, calls the engine
clear_audio_callback(indata, status) ==
    /\ cb = "idle"
    /\ pc \notin Stopped
    /\ IF /\ ~status
          /\ get_audio_energy_sq(butter_highpass_filter(indata))
               > CLEAR_ENERGY_THRESHOLD * CLEAR_ENERGY_THRESHOLD
          /\ CLEAR_CHUNK_TENTHS >= MIN_SPEECH_TENTHS
       THEN cb' = "L50"
       ELSE cb' = "idle"
    /\ UNCHANGED <<current_text, last_update, cb_result, accept_time,
                   transcript, now, pc, text>>

\* lines 50-59: model.transcribe returns
ClearEngineReturn(result) ==
    /\ cb = "L50"
    /\ cb_result' = result
    /\ cb' = "L61"
    /\ UNCHANGED <<current_text, last_update, accept_time, transcript, now, pc, text>>

\* lines 76-77: model.transcribe raises, transcribe_audio returns ""
ClearEngineRaises ==
    /\ cb = "L50"
    /\ cb' = "idle"
    /\ UNCHANGED <<current_text, last_update, cb_result, accept_time,
                   transcript, now, pc, text>>

\* lines 61-75 and 107-110: transcribe_audio filters and returns the text,
\* the callback keeps it if it has at least two words
ClearValidate ==
    /\ cb = "L61"
    /\ UNCHANGED cb_result
    /\ LET t == transcribe_audio(cb_result)
       IN  IF t # <<>> /\ Len(split(t)) >= 2
           THEN text' = t /\ cb' = "L111"
           ELSE text' = <<>> /\ cb' = "idle"
    /\ UNCHANGED <<current_text, last_update, accept_time, transcript, now, pc>>

\* line 111
ClearSetText ==
    /\ cb = "L111"
    /\ current_text' = text
    /\ accept_time' = now
    /\ cb' = "L113"
    /\ UNCHANGED <<last_update, cb_result, transcript, now, pc, text>>

\* line 113, then return
ClearSetUpdate(adc) ==
    /\ cb = "L113"
    /\ last_update' = adc
    /\ text' = <<>>
    /\ cb' = "idle"
    /\ UNCHANGED <<current_text, cb_result, accept_time, transcript, now, pc>>

\* lines 131-134: the check of the main loop, when it writes
ClearCheck ==
    /\ pc = "L131"
    /\ current_text # <<>>
    /\ now - last_update > CLEAR_SILENCE_TIMEOUT
    /\ transcript' = Append(transcript, FormatLine(now, current_text))
    /\ pc' = "L135"
    /\ UNCHANGED <<current_text, last_update, cb, cb_result, accept_time, now, text>>

\* line 135, then time.sleep(0.1) and back to line 131
ClearReset ==
    /\ pc = "L135"
    /\ current_text' = <<>>
    /\ pc' = "L131"
    /\ UNCHANGED <<last_update, cb, cb_result, accept_time, transcript, now, text>>

\* the wall clock
ClearTick ==
    /\ pc \notin Stopped
    /\ now < ClearMaxTime
    /\ now' = now + 1
    /\ UNCHANGED <<current_text, last_update, cb, cb_result, accept_time,
                   transcript, pc, text>>

\* lines 139-147: Ctrl-C in the main loop; the stream is closed, the finally
\* clause writes current_text if there is one, the process ends
ClearKeyboardInterrupt ==
    /\ pc \in {"L131", "L135"}
    /\ IF current_text # <<>>
       THEN transcript' = Append(transcript, FormatLine(now, current_text))
       ELSE UNCHANGED transcript
    /\ pc' = "done"
    /\ current_text' = <<>>
    /\ last_update' = 0
    /\ cb' = "idle"
    /\ cb_result' = <<>>
    /\ accept_time' = 0
    /\ now' = 0
    /\ text' = <<>>

\* the variables whisper_clear.py does not have
streaming == <<audio_q, buf, context_buf, current_line, accumulated_text,
               last_speech_time, ts, fresh>>

InitClear ==
    /\ HistInit
    /\ ClearInit
    /\ SupervisionInit
    /\ audio_q = <<>>
    /\ buf = <<>>
    /\ context_buf = <<>>
    /\ current_line = <<>>
    /\ accumulated_text = <<>>
    /\ last_speech_time = 0
    /\ transcript = <<>>
    /\ now = 0
    /\ pc = "L131"
    /\ text = <<>>
    /\ ts = 0
    /\ fresh = FALSE

NextClear ==
    \/ \E indata \in ClearInputs, status \in BOOLEAN :
          clear_audio_callback(indata, status) /\ UNCHANGED <<streaming, hist, supervision>>
    \/ \E result \in ClearTexts :
          ClearEngineReturn(result) /\ UNCHANGED <<streaming, hist, supervision>>
    \/ ClearEngineRaises /\ UNCHANGED <<streaming, hist, supervision>>
    \/ ClearValidate /\ UNCHANGED <<streaming, hist, supervision>>
    \/ ClearSetText /\ UNCHANGED <<streaming, hist, supervision>>
    \/ \E adc \in AdcTimes(now) :
          ClearSetUpdate(adc) /\ UNCHANGED <<streaming, hist, supervision>>
    \/ Len(transcript) < MaxLines /\ ClearCheck /\ UNCHANGED <<streaming, hist, supervision>>
    \/ ClearReset /\ UNCHANGED <<streaming, hist, supervision>>
    \/ ClearTick /\ UNCHANGED <<streaming, hist, supervision>>
    \/ ClearKeyboardInterrupt /\ UNCHANGED <<streaming, hist, supervision>>

SpecClear == InitClear /\ [][NextClear]_vars

----------------------------------------------------------------------------
(* The supervision scripts whisper_hotkey.py, whisper_simple_toggle.py and  *)
(* whisper_menubar.py (line numbers are those of whisper_hotkey.py unless   *)
(* a script is named).  Every run of a script and the menu bar application *)
(* is a process of its own; they share PID_FILE, the process table and the *)
(* notification display, and interleave between any two system calls.  A   *)
(* hotkey or toggle script runs one command and exits; the menu bar        *)
(* application lives on and runs one handler at a time.  A transcription   *)
(* process that has exited stays in the process table as a zombie for as   *)
(* long as the script that launched it is alive and has not waited for it. *)

Kinds == <<"hotkey", "toggle", "menubar">>

DigitChars == <<"0", "1", "2", "3", "4", "5", "6", "7", "8", "9">>

\* str(process.pid), line 57
RECURSIVE str(_)
str(n) ==
    IF n < 10 THEN <<DigitChars[n + 1]>>
    ELSE Append(str(n \div 10), DigitChars[(n % 10) + 1])

IsDigit(c) == \E i \in 1..10 : DigitChars[i] = c

\* int(...) of line 24 raises ValueError
int_raises(t) ==
    strip(t) = <<>> \/ \E i \in 1..Len(strip(t)) : ~IsDigit(strip(t)[i])

RECURSIVE digits_value(_)
digits_value(s) ==
    IF s = <<>> THEN 0
    ELSE 10 * digits_value(SubSeq(s, 1, Len(s) - 1))
         + ((CHOOSE i \in 1..10 : DigitChars[i] = s[Len(s)]) - 1)

\* int(f.read().strip()), line 24, when it does not raise
int(t) == digits_value(strip(t))

\* PID_FILE as open(PID_FILE, 'w') leaves it: created or truncated, empty
EmptyFile == [exists |-> TRUE, text |-> <<>>]

\* os.kill(pid, 0) of line 25 returns: the pid is in the process table,
\* running or a zombie
kill_probe_ok(pr, pid) == pid \in DOMAIN pr /\ pr[pid].state \in {"live", "zombie"}

\* is_running(), lines 17-31: the value it returns
is_running(f, pr) ==
    /\ f.exists
    /\ ~int_raises(f.text)
    /\ kill_probe_ok(pr, int(f.text))

\* is_running(), lines 27-31: PID_FILE as it leaves it
is_running_file(f, pr) == IF is_running(f, pr) THEN f ELSE NoFile

\* os.remove(PID_FILE): whoever holds the file open for writing now writes
\* to a file that has no name
Unlinked(su) == [s \in Sup |-> [su[s] EXCEPT !.linked = FALSE]]

\* the scripts after PID_FILE went from f to g
AfterRemove(su, f, g) == IF f.exists /\ ~g.exists THEN Unlinked(su) ELSE su

\* an entry of the process table that is free again
Gone == [state |-> "gone", parent |-> 0]

\* the process table after process p has exited: p stays a zombie while the
\* script that launched it is alive
Exited(p) ==
    [procs EXCEPT ![p] = IF @.parent # 0 THEN [@ EXCEPT !.state = "zombie"]
                         ELSE Gone]

\* the process table after script s has waited for its children that exited
Reaped(pr, s) ==
    [p \in Pids |-> IF pr[p].parent = s /\ pr[p].state = "zombie"
                    THEN Gone ELSE pr[p]]

\* the process table after script s has exited: init adopts its children
\* and waits for them
Orphaned(pr, s) ==
    [p \in Pids |-> IF pr[p].parent # s THEN pr[p]
                    ELSE IF pr[p].state = "zombie" THEN Gone
                    ELSE [pr[p] EXCEPT !.parent = 0]]

\* the commands a script takes: sys.argv[1] of lines 93-108, main() of
\* whisper_simple_toggle.py, the menu items and the timer of
\* whisper_menubar.py
Commands(kind) ==
    IF kind = "hotkey" THEN {"start", "stop", "toggle", "status"}
    ELSE IF kind = "toggle" THEN {"toggle"}
    ELSE {"start", "stop", "status"}

\* script s moves to position next; at "idle" a hotkey or toggle script has
\* exited and the menu bar handler has returned
Goto(s, su, pr, next) ==
    /\ sup' = [su EXCEPT ![s] =
                  IF next \in {"idle", "update"}
                  THEN [@ EXCEPT !.pc = next, !.pid = 0, !.child = 0,
                                 !.linked = FALSE]
                  ELSE [@ EXCEPT !.pc = next]]
    /\ procs' = IF next = "idle" /\ su[s].kind # "menubar"
                THEN Orphaned(pr, s) ELSE pr

\* where a handler that has done its work goes: whisper_menubar.py calls
\* update_status (lines 88, 112, 119), the scripts return
Done(s) == IF sup[s].kind = "menubar" THEN "update" ELSE "idle"

\* is_running(), lines 17-31, called at position at by toggle_transcription
\* (line 88), start_transcription (line 35), stop_transcription (line 70),
\* the status command (line 103) or update_status (whisper_menubar.py line
\* 54), and the notification of lines 36, 39 or 71
IsRunningAt(s, at) ==
    LET r == is_running(pid_file, procs)
        f == is_running_file(pid_file, procs)
        su == AfterRemove(sup, pid_file, f)
    IN  /\ pid_file' = f
        /\ IF at = "toggle"
           THEN /\ Goto(s, su, procs, IF r THEN "stop" ELSE "start")
                /\ UNCHANGED notification
           ELSE IF at = "start"
           THEN IF r
                THEN /\ Goto(s, su, procs, "idle")
                     /\ notification' = "Already running!"
                ELSE /\ Goto(s, su, procs, "popen")
                     /\ notification' = IF sup[s].kind = "hotkey"
                                        THEN "Starting transcription..."
                                        ELSE notification
           ELSE IF at = "stop"
           THEN IF r
                THEN /\ Goto(s, su, procs, "read")
                     /\ UNCHANGED notification
                ELSE /\ Goto(s, su, procs, "idle")
                     /\ notification' = "Not running"
           ELSE /\ Goto(s, su, procs, "idle")
                /\ UNCHANGED notification

\* lines 93-108; whisper_simple_toggle.py lines 90-99; whisper_menubar.py
\* lines 65, 93, 121, 127: a command arrives and calls is_running
Invoke(s, cmd) ==
    /\ sup[s].pc = "idle"
    /\ cmd \in Commands(sup[s].kind)
    /\ IsRunningAt(s, cmd)

\* the call of is_running by start_transcription or stop_transcription
\* after toggle_transcription called it, or by update_status
IsRunning(s) ==
    /\ sup[s].pc \in {"start", "stop", "update"}
    /\ IsRunningAt(s, sup[s].pc)

\* subprocess.Popen, lines 48-53: a new transcription process, child of s.
\* In the menu bar application Popen first waits for the children that
\* have exited (subprocess._cleanup).
Popen(s) ==
    /\ sup[s].pc = "popen"
    /\ \E p \in Pids :
        /\ procs[p].state = "unused"
        /\ \A q \in Pids : q < p => procs[q].state # "unused"
        /\ Goto(s, [sup EXCEPT ![s].child = p],
                [Reaped(procs, s) EXCEPT ![p] = [state |-> "live", parent |-> s]],
                "open")
    /\ UNCHANGED <<pid_file, notification>>

\* subprocess.Popen raises (the interpreter of VENV_PYTHON is missing):
\* whisper_simple_toggle.py lines 62-63, whisper_menubar.py lines 90-91;
\* whisper_hotkey.py does not catch it and the script ends
PopenRaises(s) ==
    /\ sup[s].pc = "popen"
    /\ Goto(s, sup, procs, "idle")
    /\ notification' = IF sup[s].kind = "hotkey" THEN notification
                       ELSE "Failed to start"
    /\ UNCHANGED pid_file

\* open(PID_FILE, 'w'), line 56
OpenPidFile(s) ==
    /\ sup[s].pc = "open"
    /\ pid_file' = EmptyFile
    /\ Goto(s, [sup EXCEPT ![s].linked = TRUE], procs, "write")
    /\ UNCHANGED notification

\* f.write(str(process.pid)) and the close of the with block, line 57;
\* whisper_simple_toggle.py line 60 and whisper_menubar.py line 87 notify
WritePidFile(s) ==
    /\ sup[s].pc = "write"
    /\ pid_file' = IF sup[s].linked
                   THEN [exists |-> TRUE, text |-> str(sup[s].child)]
                   ELSE pid_file
    /\ IF sup[s].kind = "hotkey"
       THEN /\ Goto(s, sup, procs, "poll")
            /\ UNCHANGED notification
       ELSE /\ Goto(s, sup, procs, Done(s))
            /\ notification' = "Started"

\* mutant: a failed start leaves the PID file where it is
Poll_KeepsFile(s) ==
    /\ sup[s].pc = "poll"
    /\ pid_file' = pid_file
    /\ Goto(s, sup, Reaped(procs, s), "idle")
    /\ notification' = IF procs[sup[s].child].state = "live"
                       THEN "Transcription active!" ELSE "Failed to start"

\* lines 60-66, after time.sleep(2): process.poll() and what follows
Poll(s) ==
    /\ sup[s].pc = "poll"
    /\ IF procs[sup[s].child].state = "live"
       THEN /\ pid_file' = pid_file
            /\ Goto(s, sup, procs, "idle")
            /\ notification' = "Transcription active!"
       ELSE /\ pid_file' = NoFile
            /\ Goto(s, AfterRemove(sup, pid_file, NoFile), Reaped(procs, s),
                    "idle")
            /\ notification' = "Failed to start"

\* lines 75-76: read the PID file again
ReadPidFile(s) ==
    /\ sup[s].pc = "read"
    /\ IF pid_file.exists /\ ~int_raises(pid_file.text)
       THEN Goto(s, [sup EXCEPT ![s].pid = int(pid_file.text)], procs, "killpg")
       ELSE Goto(s, sup, procs, "except")
    /\ UNCHANGED <<pid_file, notification>>

\* os.killpg(os.getpgid(pid), signal.SIGTERM), line 79: a running process
\* is terminated, a process that is gone raises ProcessLookupError, and for
\* a zombie the outcome depends on the system
KillProcessGroup(s, raises) ==
    /\ sup[s].pc = "killpg"
    /\ LET p == sup[s].pid
       IN  /\ procs[p].state = "live" => ~raises
           /\ procs[p].state \in {"unused", "gone"} => raises
           /\ IF raises
              THEN Goto(s, sup, procs, "except")
              ELSE Goto(s, sup,
                        IF procs[p].state = "live" THEN Exited(p) ELSE procs,
                        "remove")
    /\ UNCHANGED <<pid_file, notification>>

\* os.remove(PID_FILE), lines 80-81, which raises when the file is gone;
\* whisper_simple_toggle.py lines 79-82 and whisper_menubar.py lines
\* 108-111 test os.path.exists first
RemovePidFile(s) ==
    /\ sup[s].pc = "remove"
    /\ pid_file' = NoFile
    /\ IF sup[s].kind = "hotkey" /\ ~pid_file.exists
       THEN /\ Goto(s, sup, procs, "except")
            /\ UNCHANGED notification
       ELSE /\ Goto(s, AfterRemove(sup, pid_file, NoFile), procs, Done(s))
            /\ notification' = "Transcription stopped"

\* except Exception, lines 83-84: a notification; whisper_simple_toggle.py
\* lines 84-88 and whisper_menubar.py lines 114-119 also remove the file
StopExcept(s) ==
    /\ sup[s].pc = "except"
    /\ IF sup[s].kind = "hotkey"
       THEN /\ pid_file' = pid_file
            /\ Goto(s, sup, procs, "idle")
            /\ notification' = "Error stopping"
       ELSE /\ pid_file' = NoFile
            /\ Goto(s, AfterRemove(sup, pid_file, NoFile), procs, Done(s))
            /\ notification' = "Failed to stop"

\* the transcription process p ends by itself: live_transcribe.py lines
\* 26-43, on Ctrl-C, a device error or an engine error
ProcExit(p) ==
    /\ procs[p].state = "live"
    /\ procs' = Exited(p)
    /\ UNCHANGED <<pid_file, sup, notification>>

\* the variables the supervision scripts do not have
pipeline == <<streaming, transcript, now, pc, text, hist, clear>>

\* each slot runs one of the three scripts; the slots are alike, so the
\* scripts are taken in the order of Kinds
InitSupervise ==
    /\ HistInit
    /\ ClearInit
    /\ audio_q = <<>>
    /\ buf = <<>>
    /\ context_buf = <<>>
    /\ current_line = <<>>
    /\ accumulated_text = <<>>
    /\ last_speech_time = 0
    /\ transcript = <<>>
    /\ now = 0
    /\ pc = "get"
    /\ text = <<>>
    /\ ts = 0
    /\ fresh = FALSE
    /\ pid_file = NoFile
    /\ procs = [p \in Pids |-> [state |-> "unused", parent |-> 0]]
    /\ \E k \in [Sup -> 1..3] :
          /\ \A s \in Sup : s + 1 \in Sup => k[s] <= k[s + 1]
          /\ sup = [s \in Sup |-> [kind |-> Kinds[k[s]], pc |-> "idle",
                                   pid |-> 0, child |-> 0, linked |-> FALSE]]
    /\ notification = ""
    /\ invoked = 0

NextSupervise ==
    \/ \E s \in Sup, cmd \in {"start", "stop", "toggle", "status"} :
          /\ invoked < MaxCommands
          /\ Invoke(s, cmd)
          /\ invoked' = invoked + 1
          /\ UNCHANGED pipeline
    \/ \E s \in Sup : IsRunning(s) /\ UNCHANGED <<pipeline, invoked>>
    \/ \E s \in Sup : Popen(s) /\ UNCHANGED <<pipeline, invoked>>
    \/ \E s \in Sup : PopenRaises(s) /\ UNCHANGED <<pipeline, invoked>>
    \/ \E s \in Sup : OpenPidFile(s) /\ UNCHANGED <<pipeline, invoked>>
    \/ \E s \in Sup : WritePidFile(s) /\ UNCHANGED <<pipeline, invoked>>
    \/ \E s \in Sup : Poll(s) /\ UNCHANGED <<pipeline, invoked>>
    \/ \E s \in Sup : ReadPidFile(s) /\ UNCHANGED <<pipeline, invoked>>
    \/ \E s \in Sup, raises \in BOOLEAN :
          KillProcessGroup(s, raises) /\ UNCHANGED <<pipeline, invoked>>
    \/ \E s \in Sup : RemovePidFile(s) /\ UNCHANGED <<pipeline, invoked>>
    \/ \E s \in Sup : StopExcept(s) /\ UNCHANGED <<pipeline, invoked>>
    \/ \E p \in Pids : ProcExit(p) /\ UNCHANGED <<pipeline, invoked>>

SpecSupervise == InitSupervise /\ [][NextSupervise]_vars

----------------------------------------------------------------------------
(* Properties *)

Last(s) == s[Len(s)]

\* a step in which print_streaming merges a fragment into a non-empty line
MergeStep == pc = "transcribe" /\ pc' = "L81" /\ accumulated_text # <<>>

\* the reference merge: each word of the fragment is appended unless it
\* equals the last word of the line as extended so far
RECURSIVE RefMerge(_, _)
RefMerge(line_words, frag_words) ==
    IF frag_words = <<>> THEN line_words
    ELSE IF line_words # <<>> /\ Head(frag_words) = Last(line_words)
         THEN RefMerge(line_words, Tail(frag_words))
         ELSE RefMerge(Append(line_words, Head(frag_words)), Tail(frag_words))

\* C1: merging a non-empty fragment into a non-empty line leaves the words of
\* the reference merge.
C1_ReferenceMerge ==
    [][MergeStep =>
         split(accumulated_text') = RefMerge(split(accumulated_text), split(text'))]_vars

\* C2: when the last word of the line differs from the first word of the
\* fragment, the merged line is the line followed by the whole fragment.
C2_NoSharedBoundary ==
    [][(MergeStep /\ Last(split(accumulated_text)) # Head(split(text'))) =>
         split(accumulated_text') = split(accumulated_text) \o split(text')]_vars

\* " " + w for each word w, concatenated
RECURSIVE SpaceJoined(_)
SpaceJoined(words) ==
    IF words = <<>> THEN <<>> ELSE <<" ">> \o Head(words) \o SpaceJoined(Tail(words))

\* the fragment is w x1 .. xn with w the last word of the line and no xi = w
BoundaryShared(line, fragment) ==
    LET fw == split(fragment)
    IN  /\ fw # <<>>
        /\ Head(fw) = Last(split(line))
        /\ \A i \in 2..Len(fw) : fw[i] # Head(fw)

\* C3: a fragment "w x1 .. xn" merged into a line ending in w, with every xi
\* different from w, leaves the line followed by " x1 .. xn": the boundary
\* word is kept once.
C3_BoundaryWordOnce ==
    [][(MergeStep /\ BoundaryShared(accumulated_text, text')) =>
         accumulated_text' = accumulated_text \o SpaceJoined(Tail(split(text')))]_vars

\* C3 witness: "b a a" has been merged into "a b", giving "a b a a"
C3_Witness ==
    /\ pc = "L81"
    /\ text = <<"b", " ", "a", " ", "a">>
    /\ accumulated_text = <<"a", " ", "b", " ", "a", " ", "a">>

IsPrefix(a, b) == Len(a) <= Len(b) /\ SubSeq(b, 1, Len(a)) = a

\* the time a "[ts] ..." line shows: for current_line, the time.strftime of
\* line 52 in the print_streaming call that accepted the last fragment
LineTime(line) == CHOOSE t \in 0..MaxTime : ToString(t) = line[2]

\* the text of a transcript line after its "[ts] " prefix
LineText(line) == SubSeq(line, 5, Len(line))

\* C4: accumulated_text becomes empty only by line 66 of a finalize (or when
\* the process ends); in every other step its words before the step are a
\* prefix of its words after it.
C4_AppendOnly ==
    [][\/ accumulated_text' = accumulated_text
       \/ IF accumulated_text' = <<>>
          THEN pc = "L66" \/ pc' \in Stopped
          ELSE IsPrefix(split(accumulated_text), split(accumulated_text'))]_vars

\* C4 witness: a fragment has been merged into a line that already had words
C4_Witness ==
    /\ pc = "L81"
    /\ current_line # <<>>
    /\ split(text) # <<>>
    /\ Len(split(accumulated_text)) > Len(split(LineText(current_line)))

\* C5: every line appended to the transcript, by the silence finalize or by
\* the shutdown flush, follows a fragment accepted since the previous line.
C5_WrittenOnce ==
    [][Len(transcript') > Len(transcript) => fresh]_vars

\* C6: every line of the transcript is "[ts] " followed by non-empty text.
C6_NoEmptyFinalizedLine ==
    \A i \in 1..Len(transcript) :
        /\ Len(transcript[i]) > 4
        /\ transcript[i][1] = "[" /\ transcript[i][3] = "]" /\ transcript[i][4] = " "
        /\ strip(LineText(transcript[i])) # <<>>

\* C6 witness: a line written by the silence finalize and a line written by
\* the shutdown flush
C6_Witness == pc = "done" /\ Len(transcript) = 2

\* C7: a silence finalize (the write of lines 57-63 reached from line 169)
\* happens only when more than SILENCE_TIMEOUT has passed since the last
\* fragment was accepted, the time current_line shows.
C7_NoEarlyFinalize ==
    [][(pc = "get" /\ pc' = "L65") =>
         /\ current_line # <<>>
         /\ now - LineTime(current_line) > SILENCE_TIMEOUT]_vars

\* C8: a line that was already pending when the silence timeout expired
\* is finalized within a second of the expiry, with or without further
\* audio: no state holds such a line, not being finalized, more than
\* SILENCE_TIMEOUT + 1 seconds after last_speech_time while the main
\* thread waits in audio_q.get().
C8_SilenceCheckIndependent ==
    (/\ accumulated_text # <<>>
     /\ pc = "get" /\ audio_q = <<>>
     /\ current_line # <<>>
     /\ LineTime(current_line) < last_speech_time + SILENCE_TIMEOUT)
        => now - last_speech_time <= SILENCE_TIMEOUT + 1

\* C9: when the engine returns an empty or whitespace-only text for a window
\* that passed the gate while a line is pending, the timestamp of the silence
\* check is still no later than the last accepted fragment, the time
\* current_line shows.
C9_EmptyFragmentKeepsTimer ==
    [][(pc = "transcribe" /\ pc' = "get" /\ current_line # <<>>) =>
         last_speech_time' <= LineTime(current_line)]_vars

\* C10: on KeyboardInterrupt exactly one line carrying accumulated_text is
\* appended when accumulated_text is non-empty, and nothing otherwise.
C10_FlushOnExit ==
    [][(pc # "done" /\ pc' = "done") =>
         IF accumulated_text # <<>>
         THEN /\ Len(transcript') = Len(transcript) + 1
              /\ SubSeq(transcript', 1, Len(transcript)) = transcript
              /\ LineText(Last(transcript')) = strip(accumulated_text)
         ELSE transcript' = transcript]_vars

\* C11: while every block the device delivers lies below the energy
\* threshold, the main thread never reaches the engine call (it is in
\* audio_q.get() or has ended), no text is accumulated and nothing is
\* appended to the transcript, neither by a finalize nor at shutdown.
C11_QuietNeverTranscribed ==
    /\ pc \in {"get", "done"}
    /\ accumulated_text = <<>>
    /\ current_line = <<>>
    /\ transcript = <<>>

\* C11 witness: a window holding a faint hum has been through the gate, long
\* after the silence timeout
C11_Witness ==
    /\ pc = "get"
    /\ buf = <<>>
    /\ Len(context_buf) >= ChunkBlocks
    /\ SumSq(LastN(context_buf, ChunkBlocks)) > 0
    /\ now > SILENCE_TIMEOUT

\* the whole script has been delivered and processed
ScriptDone == Len(dequeued) = ScriptLen /\ pc = "get"

\* C12: once the script "silence, A, B, 4 s of silence" has been processed,
\* the transcript holds exactly one line, its text is the merge of the
\* fragments of A and B, and no line is pending any more.
C12_ScriptedRoundTrip ==
    ScriptDone =>
        /\ Len(transcript) = 1
        /\ LineText(transcript[1]) = MergeText(strip(ScriptFragment(2)), ScriptFragment(3))
        /\ accumulated_text = <<>>

\* the events of engine_log of one kind
Events(kind) == {i \in 1..Len(engine_log) : engine_log[i][1] = kind}

\* C13: every call of the engine is followed at once by its own return, the
\* last call alone may still be running and then the main thread is inside
\* it (so no call starts while another has not returned); every merge
\* follows the return of the call for the same window; and the windows of
\* the merged fragments are strictly increasing, windows being numbered in
\* the order they were dequeued.
C13_SerialInOrder ==
    /\ \A i \in Events("call") :
          /\ engine_log[i][2] \in 1..Len(windows)
          /\ IF i = Len(engine_log)
             THEN pc \in {"transcribe", "live_transcribe"}
             ELSE engine_log[i + 1] = <<"return", engine_log[i][2]>>
    /\ \A i \in Events("return") : i > 1 /\ engine_log[i - 1][1] = "call"
    /\ \A i \in Events("merge") :
          i > 1 /\ engine_log[i - 1] = <<"return", engine_log[i][2]>>
    /\ \A i, j \in Events("merge") : i < j => engine_log[i][2] < engine_log[j][2]
    /\ \A i, j \in Events("call") : i < j => engine_log[i][2] < engine_log[j][2]
    /\ pc \in {"transcribe", "live_transcribe"} =>
          engine_log # <<>> /\ engine_log[Len(engine_log)][1] = "call"

\* C13 witness: the fragments of two windows have been merged, and a block
\* arrived meanwhile
C13_Witness ==
    /\ pc = "L81"
    /\ Cardinality(Events("merge")) = 2
    /\ audio_q # <<>>

\* C14: the blocks dequeued so far followed by the blocks waiting in audio_q
\* are exactly the blocks enqueued so far, in order: the dequeued sequence is
\* a prefix of the enqueued one, nothing dropped, duplicated or reordered.
C14_QueueFifo == enqueued = dequeued \o audio_q

\* C14 witness: two different blocks were dequeued while two different
\* blocks wait, the engine call running
C14_Witness ==
    /\ pc = "transcribe"
    /\ Len(dequeued) = 2 /\ dequeued[1] # dequeued[2]
    /\ Len(audio_q) = 2 /\ audio_q[1] # audio_q[2]

\* C15: the unprocessed audio, the blocks waiting in audio_q plus the blocks
\* in buf, never exceeds a fixed maximum of MaxBacklog blocks.
C15_BacklogBounded == Len(audio_q) + Len(buf) <= MaxBacklog

\* C16: the callback can always run (it never blocks), and a step that
\* enqueues a block appends the converted block to audio_q and changes
\* nothing else: not the buffers, the line, the timestamp or the position
\* of the main thread (so it does not call the engine).
C16_CallbackOnlyEnqueues ==
    /\ [](\A indata \in InputAmps : ENABLED audio_callback(indata, TRUE))
    /\ [][enqueued' # enqueued =>
            /\ audio_q' = Append(audio_q, enqueued'[Len(enqueued')])
            /\ UNCHANGED <<buf, context_buf, current_line, accumulated_text,
                           last_speech_time, transcript, now, pc, text, ts>>]_vars

\* C16 witness: blocks have been enqueued while the engine call runs on a
\* pending line
C16_Witness ==
    /\ pc = "transcribe"
    /\ accumulated_text # <<>>
    /\ audio_q # <<>>
    /\ Len(enqueued) = MaxBlocks

RECURSIVE Flatten(_)
Flatten(ws) == IF ws = <<>> THEN <<>> ELSE Head(ws) \o Flatten(Tail(ws))

\* the configured window size of the program that runs
WindowSize == IF pc \in LivePcs THEN LiveChunkBlocks ELSE ChunkBlocks

\* C17: the windows taken so far, concatenated, followed by buf are exactly
\* the blocks dequeued so far; every window has the configured size; and buf
\* holds less than a window whenever a cycle has ended.
C17_WindowsPartition ==
    /\ Flatten(windows) \o buf = dequeued
    /\ \A i \in 1..Len(windows) : Len(windows[i]) = WindowSize
    /\ Len(buf) < WindowSize

\* C17 witness: two different windows were taken and a block remains in buf
C17_Witness ==
    /\ Len(windows) = 2
    /\ windows[1] # windows[2]
    /\ Len(buf) = 1

\* C18: the context buffer never holds more than ContextBlocks blocks.
C18_ContextBounded == Len(context_buf) <= ContextBlocks

\* C18 witness: more blocks than the maximum have been pushed and the
\* context buffer is full
C18_Witness ==
    /\ pc = "get"
    /\ Len(dequeued) > ContextBlocks
    /\ Len(context_buf) = ContextBlocks

\* C19: in the streaming loop, once more than ContextBlocks blocks have been
\* pushed, the context buffer holds, between cycles, exactly the last
\* ContextBlocks blocks pushed.
C19_ContextFullAndRecent ==
    (pc = "get" /\ Len(dequeued) > ContextBlocks) =>
        context_buf = LastN(dequeued, ContextBlocks)

\* C20: an engine call that ends without a fragment, by an empty result or
\* by an exception, returns to line 130 and leaves accumulated_text,
\* current_line and the transcript as they were.
C20_EngineFaultAbsorbed ==
    [][(pc = "transcribe" /\ pc' \notin {"transcribe", "L81", "done"}) =>
          /\ pc' = "get"
          /\ UNCHANGED <<accumulated_text, current_line, transcript>>]_vars

\* C21: no cycle of the loop that starts at line 130 with text accumulated
\* loses that text or ends the process, Ctrl-C apart: either the line is
\* written (and then cleared by lines 65-66) or accumulated_text is still
\* held and the loop runs on, so that a failed write can be tried again.
C21_SinkFaultKeepsLine ==
    [][(pc = "get" /\ accumulated_text # <<>> /\ pc' # "done") =>
          /\ accumulated_text' = accumulated_text
          /\ pc' \in {"get", "transcribe", "L65"}
          /\ pc' = "L65" => Len(transcript') = Len(transcript) + 1]_vars

\* the text, compared case-insensitively, contains a reject phrase
MatchesRejectPhrase(t) ==
    \E phrase \in REJECT_PHRASES :
        \E i \in 1..Len(t) :
            /\ i + Len(phrase) - 1 <= Len(t)
            /\ \A k \in 1..Len(phrase) : lower_char(t[i + k - 1]) = phrase[k]

\* C22: a block that is sent on to the engine when it comes without a status
\* flag is sent on to the engine when it comes with one.
C22_StatusBlockProcessed ==
    \A indata \in ClearInputs :
        (ENABLED (clear_audio_callback(indata, FALSE) /\ cb' = "L50"))
            => (ENABLED (clear_audio_callback(indata, TRUE) /\ cb' = "L50"))

\* C23: when the engine's text contains a reject phrase, compared
\* case-insensitively, transcribe_audio returns the empty text and the
\* callback returns with current_text and last_update as they were.
C23_RejectedTextIgnored ==
    [][(/\ cb = "L61" /\ cb' # "L61" /\ pc' \notin Stopped
        /\ MatchesRejectPhrase(strip(cb_result))) =>
          /\ transcribe_audio(cb_result) = <<>>
          /\ cb' = "idle"
          /\ UNCHANGED <<current_text, last_update>>]_vars

\* C23 witness: "You too" has been rejected while a text is pending
C23_Witness ==
    /\ cb = "idle"
    /\ cb_result = <<"Y", "o", "u", " ", "t", "o", "o">>
    /\ current_text # <<>>
    /\ last_update > 0

\* C24: a silence finalize appends the stripped accumulated text as one
\* line; when print_streaming has returned from it (line 172),
\* accumulated_text and current_line are empty; and a fragment accepted on
\* an empty line leaves exactly the words of that fragment.
C24_FinalizeReturnsToIdle ==
    [][/\ (pc = "get" /\ pc' = "L65") =>
            transcript' = Append(transcript, FormatLine(now, strip(accumulated_text)))
       /\ pc' = "L172" => (accumulated_text' = <<>> /\ current_line' = <<>>)
       /\ (pc = "transcribe" /\ pc' = "L81" /\ accumulated_text = <<>>) =>
            split(accumulated_text') = split(text')]_vars

\* C24 witness: after a finalize a fragment has started a new line
C24_Witness ==
    /\ pc = "L81"
    /\ transcript # <<>>
    /\ current_line = <<>>
    /\ split(accumulated_text) = split(text)
    /\ accumulated_text # <<>>

\* C25: a cycle that ends back at line 130 without an accepted fragment and
\* without a finalize (no window, the gate says no speech, or the engine
\* returns empty text) leaves accumulated_text and current_line unchanged.
C25_NoFragmentNoChange ==
    [][\/ (accumulated_text' = accumulated_text /\ current_line' = current_line)
       \/ ~(pc \in {"get", "transcribe"} /\ pc' = "get")]_vars

\* C25 witness: the engine returned empty text for a window that passed the
\* gate after the pending line was last extended
C25_Witness ==
    /\ pc = "get"
    /\ current_line # <<>>
    /\ accumulated_text # <<>>
    /\ last_speech_time > LineTime(current_line)

\* C26: the main loop of whisper_clear.py writes the line no earlier than
\* CLEAR_SILENCE_TIMEOUT seconds after the wall-clock time at which the
\* callback last accepted a text (line 111).
C26_ClearNoEarlyFinalize ==
    [][(pc = "L131" /\ pc' = "L135") =>
          now >= accept_time + CLEAR_SILENCE_TIMEOUT]_vars

\* C27: when the main loop of whisper_clear.py clears current_text (line
\* 135), the text it clears is the text of the line it has just written.
C27_ClearsWhatItWrote ==
    [][(pc = "L135" /\ pc' = "L131") =>
          current_text = LineText(transcript[Len(transcript)])]_vars

\* C28: current_line is empty exactly when accumulated_text is, and
\* otherwise it is a "[ts] " prefix followed by the accumulated text.
C28_LineInStep ==
    /\ current_line = <<>> <=> accumulated_text = <<>>
    /\ current_line # <<>> => LineText(current_line) = strip(accumulated_text)

\* C29: whenever the streaming loop splits a window off buf, the context
\* buffer holds at least one window and its last ChunkBlocks blocks, the
\* audio the gate tests, are the window just split off.
C29_WindowIsGated ==
    [][\/ windows' = windows
       \/ pc # "get"
       \/ /\ Len(context_buf') >= ChunkBlocks
          /\ LastN(context_buf', ChunkBlocks) = windows'[Len(windows')]]_vars

\* C29 witness: the window after a finalize has been split off and is all
\* the context buffer holds
C29_Witness ==
    /\ pc \in {"get", "transcribe"}
    /\ transcript # <<>>
    /\ Len(windows) = 3
    /\ context_buf = windows[3]
    /\ SumSq(context_buf) > 0

\* C30: between loop iterations buf holds fewer blocks than a window: the
\* blocks dequeued so far made as many whole windows as they could, one at
\* most per block, buf holds the remainder, and what has not been dequeued
\* waits in audio_q.
C30_BufBelowWindow ==
    /\ Len(buf) < WindowSize
    /\ Len(buf) = Len(dequeued) % WindowSize
    /\ Len(windows) = Len(dequeued) \div WindowSize
    /\ Len(audio_q) = Len(enqueued) - Len(dequeued)

\* C30 witness: live_transcribe.py has taken a window, buf is one block
\* short of the next and a block waits in the queue
C30_Witness ==
    /\ pc = "live_get"
    /\ Len(windows) = 1
    /\ Len(buf) = LiveChunkBlocks - 1
    /\ audio_q # <<>>

\* the transcription processes that are running
LiveProcs == {p \in Pids : procs[p].state = "live"}

\* no supervision script is between its is_running and its return
Settled == \A s \in Sup : sup[s].pc = "idle"

\* C31: at most one transcription process is alive at a time, whatever the
\* interleaving of the commands given to concurrently running supervision
\* scripts, and once the scripts have returned the PID file names it.
C31_OneTranscription ==
    /\ Cardinality(LiveProcs) <= 1
    /\ Settled => \A p \in LiveProcs : pid_file = [exists |-> TRUE, text |-> str(p)]

\* C32: when stop_transcription returns from a call that found the
\* transcription running, on the success path as on the path of the except
\* clause, the PID file does not exist and is_running() is false.
C32_StopRemovesPidFile ==
    [][\A s \in Sup :
          (sup[s].pc \in {"remove", "except"} /\ sup'[s].pc \in {"idle", "update"})
              => (~pid_file'.exists /\ ~is_running(pid_file', procs'))]_vars

\* the PID file exists and holds the pid of a running process
HoldsLivePid ==
    /\ pid_file.exists
    /\ ~int_raises(pid_file.text)
    /\ int(pid_file.text) \in LiveProcs

\* a step in which some script calls is_running
CallsIsRunning ==
    \/ invoked' # invoked
    \/ \E s \in Sup : sup[s].pc \in {"start", "stop", "update"} /\ sup'[s].pc # sup[s].pc

\* C33: is_running returns True only when the PID file exists and holds the
\* pid of a live process, and then leaves the file as it is; it returns
\* False when the file is missing; when the file holds a non-integer or the
\* pid of a process that is dead it returns False and removes the file.
C33_IsRunningExact ==
    [][CallsIsRunning =>
          /\ is_running(pid_file, procs) => (HoldsLivePid /\ pid_file' = pid_file)
          /\ ~pid_file.exists => ~is_running(pid_file, procs)
          /\ (pid_file.exists /\ ~HoldsLivePid)
                => (~is_running(pid_file, procs) /\ ~pid_file'.exists)]_vars

\* C34: in whisper_hotkey.py, when start_transcription returns after its
\* check of the launched process, the PID file exists only if the process
\* was alive at that check: a start that failed has removed it.
C34_FailedStartLeavesNoTrace ==
    [][\A s \in Sup :
          (sup[s].pc = "poll" /\ sup'[s].pc = "idle" /\ pid_file'.exists)
              => procs[sup[s].child].state = "live"]_vars

\* C34 witness: two hotkey scripts, the process one of them launched has
\* exited before the check, "Failed to start" was shown and there is no PID
\* file
C34_Witness ==
    /\ \A s \in Sup : sup[s].kind = "hotkey" /\ sup[s].pc = "idle"
    /\ notification = "Failed to start"
    /\ procs[1].state = "gone"
    /\ LiveProcs = {}
    /\ ~pid_file.exists

====
